---- MODULE Spec2Model ----
(***************************************************************************)
(* SimpleJobTracker (src/shared/job_tracker.py): a process-wide, lazily    *)
(* created psycopg2 ThreadedConnectionPool and one operation,              *)
(* update_status, that upserts a row of pipeline_jobs.  Threads call       *)
(* update_status; the steps of a call that touch shared state (the class   *)
(* attribute _pool, a pool's checked-out connections, the table) are       *)
(* separate actions, the local steps between them are folded into them.    *)
(***************************************************************************)
EXTENDS Integers, Sequences, FiniteSets, TLC

VARIABLES
    cls_pool,    \* SimpleJobTracker._pool: 0 is None, else the pool object
    made,        \* the pool objects constructed so far
    used,        \* per pool object: connections handed out and not put back
    table,       \* pipeline_jobs: the committed rows
    clock,       \* the database server's clock
    active,      \* the threads that call update_status
    faults,      \* the calls of the environment that may raise
    budget,      \* calls of update_status still to be made
    pc,          \* per thread: where it is in update_status
    args,        \* per thread: the arguments of its call
    pool,        \* per thread: the local variable pool (0: unbound)
    conn,        \* per thread: the local variable conn (FALSE: None)
    txstart,     \* per thread: NOW() of its transaction
    exc,         \* per thread: the exception caught or propagating
    logged,      \* per thread: logger.error was called in this call
    wrote,       \* per thread: this call's transaction was committed
    overtaken,   \* per thread: a write to its job committed since its BEGIN
    result,      \* per thread: how its last call ended
    merged,      \* per job: the metadata arguments committed, merged in order
    latest,      \* per job: the arguments of the call committed last
    writes,      \* per job: the number of writes committed
    haderror     \* per job: a committed write stored an error_message

vars == <<cls_pool, made, used, table, clock, active, faults, budget, pc, args,
          pool, conn, txstart, exc, logged, wrote, overtaken, result, merged,
          latest, writes, haderror>>

----------------------------------------------------------------------------
(* Bounds and program constants *)

\* maxconn of the ThreadedConnectionPool
maxconn == 5

\* calls of update_status made in one behaviour of Spec
MaxCalls == 3

\* calls of update_status made in one behaviour of SpecConc
MaxConcCalls == 3

\* The threads: one more than a pool has connections.
Threads == 1..(maxconn + 1)

\* A pool object is named after the thread whose constructor call made it.
PoolIds == Threads

----------------------------------------------------------------------------
(* Values *)

None == [isnone |-> TRUE]

Some(v) == [isnone |-> FALSE, val |-> v]

Jobs == {"job1", "job2"}

SeriesIds == {"AAPL", "MSFT"}

\* (status, stage) pairs a caller passes
Phases == {<<"running", "ingestion">>, <<"completed", "forecasting">>}

ErrorMessages == {None, Some("boom")}

Keys == <<"a", "b">>

\* A Python dict is a function from some keys to values; "<object>" is a
\* value json.dumps cannot serialize.
Dicts ==
    { [k \in {} |-> "1"],
      [k \in {"a"} |-> "1"],
      [k \in {"a"} |-> "2"],
      [k \in {"b"} |-> "1"],
      [k \in {"a"} |-> "<object>"] }

Metadatas == {None} \cup {Some(d) : d \in Dicts}

\* The inputs of Spec: one job, every other argument free.
Inputs ==
    [job_id : {"job1"}, series_id : SeriesIds, phase : Phases,
     error_message : ErrorMessages, metadata : Metadatas]

\* The inputs of SpecConc: two jobs, each reported running or failed.
ConcInputs ==
    { [job_id |-> j, series_id |-> "AAPL",
       phase |-> <<"running", "ingestion">>,
       error_message |-> None, metadata |-> None] : j \in Jobs }
    \cup
    { [job_id |-> j, series_id |-> "AAPL",
       phase |-> <<"failed", "forecasting">>,
       error_message |-> Some("boom"), metadata |-> None] : j \in Jobs }

\* The input of SpecPool: the usage example of the docstring.
PoolInputs ==
    [job_id : {"job1"}, series_id : {"AAPL"},
     phase : {<<"running", "ingestion">>}, error_message : {None},
     metadata : {None}]

NoArgs == [job_id |-> "", series_id |-> "", phase |-> <<"", "">>,
           error_message |-> None, metadata |-> None]

----------------------------------------------------------------------------
(* The parameter and the SQL statement of update_status *)

\* Python truth value of the metadata argument: None and {} are falsy.
Truthy(m) == ~m.isnone /\ DOMAIN m.val # {}

\* json.dumps raises TypeError on a value that is not JSON serializable.
Serializable(d) == \A k \in DOMAIN d : d[k] # "<object>"

\* json.dumps(d): the JSON object text, a sequence of key/value members.
JsonDumps(d) ==
    LET ks == SelectSeq(Keys, LAMBDA k : k \in DOMAIN d)
    IN  [i \in 1..Len(ks) |-> <<ks[i], d[ks[i]]>>]

\* The jsonb input function: an object with each key once, the last member
\* of the text winning.
JsonbIn(text) ==
    LET last(k) == CHOOSE i \in DOMAIN text :
                       /\ text[i][1] = k
                       /\ \A j \in DOMAIN text : text[j][1] = k => j <= i
    IN  [k \in {text[i][1] : i \in DOMAIN text} |-> text[last(k)][2]]

\* json.dumps(metadata) if metadata else None, as the jsonb value of the
\* sixth parameter.
MetadataParam(m) == IF Truthy(m) THEN Some(JsonbIn(JsonDumps(m.val))) ELSE None

\* jsonb || jsonb on objects; NULL when either side is NULL.
JsonbConcat(x, y) ==
    IF x.isnone \/ y.isnone THEN None
    ELSE Some([k \in DOMAIN x.val \cup DOMAIN y.val |->
                  IF k \in DOMAIN y.val THEN y.val[k] ELSE x.val[k]])

\* COALESCE(x, y, z)
Coalesce(x, y, z) == IF ~x.isnone THEN x ELSE IF ~y.isnone THEN y ELSE z

\* The row proposed for insertion (EXCLUDED in the conflict branch).
Excluded(a, now) ==
    [job_id |-> a.job_id, series_id |-> a.series_id, status |-> a.phase[1],
     stage |-> a.phase[2], error_message |-> a.error_message,
     metadata |-> MetadataParam(a.metadata), updated_at |-> now]

\* The conflict branch without "updated_at = NOW()".
DoUpdateKeepsTime(r, ex) ==
    [r EXCEPT !.status = ex.status,
              !.stage = ex.stage,
              !.error_message = ex.error_message,
              !.metadata = Coalesce(JsonbConcat(r.metadata, ex.metadata),
                                    r.metadata, ex.metadata)]

\* The conflict branch keeping a stored error_message when the new one is
\* NULL, as it does for metadata.
DoUpdateKeepsError(r, ex) ==
    [r EXCEPT !.status = ex.status,
              !.stage = ex.stage,
              !.error_message = Coalesce(ex.error_message, r.error_message,
                                         ex.error_message),
              !.metadata = Coalesce(JsonbConcat(r.metadata, ex.metadata),
                                    r.metadata, ex.metadata),
              !.updated_at = ex.updated_at]

\* The conflict branch also setting series_id = EXCLUDED.series_id.
DoUpdateSetsSeries(r, ex) ==
    [r EXCEPT !.series_id = ex.series_id,
              !.status = ex.status,
              !.stage = ex.stage,
              !.error_message = ex.error_message,
              !.metadata = Coalesce(JsonbConcat(r.metadata, ex.metadata),
                                    r.metadata, ex.metadata),
              !.updated_at = ex.updated_at]

\* ON CONFLICT (job_id) DO UPDATE SET ...
DoUpdate(r, ex) ==
    [r EXCEPT !.status = ex.status,
              !.stage = ex.stage,
              !.error_message = ex.error_message,
              !.metadata = Coalesce(JsonbConcat(r.metadata, ex.metadata),
                                    r.metadata, ex.metadata),
              !.updated_at = ex.updated_at]

\* The rows the proposed row conflicts with.
Conflicts(tbl, ex) == {r \in tbl : r.job_id = ex.job_id}

\* INSERT ... ON CONFLICT (job_id) DO UPDATE
Upsert(tbl, a, now) ==
    LET ex == Excluded(a, now)
        cf == Conflicts(tbl, ex)
    IN  IF cf = {} THEN tbl \cup {ex}
        ELSE (tbl \ cf) \cup {DoUpdate(r, ex) : r \in cf}

----------------------------------------------------------------------------
(* The environment *)

\* The calls that may raise for reasons outside the program: the pool
\* constructor's first connect, getconn's connect of a further connection,
\* conn.cursor, cursor.execute, conn.commit, cursor.close, conn.rollback.
\* putconn is given the connection its own pool handed out and nothing closes
\* a pool, so it has no failing case here.
AllFaults == {"connect", "getconn", "cursor", "execute", "commit", "close",
              "rollback"}

May(f) == IF f \in faults THEN {f} ELSE {}

\* A pool without its upper bound.
PoolNeverExhausted(u, p) == FALSE

\* ThreadedConnectionPool.getconn raises PoolError("connection pool
\* exhausted") when maxconn connections are handed out; it does not wait.
PoolExhausted(u, p) == u[p] >= maxconn

\* ThreadedConnectionPool.putconn takes the connection back.
PutConn(u, p) == [u EXCEPT ![p] = @ - 1]

\* putconn placed after the handler instead of in a finally block: skipped
\* when an exception leaves the handler.
PutBackUnlessRaising(u, p, c, raising) ==
    IF c /\ ~raising THEN PutConn(u, p) ELSE u

\* finally: if conn: pool.putconn(conn)
PutBack(u, p, c, raising) == IF c THEN PutConn(u, p) ELSE u

----------------------------------------------------------------------------
(* update_status, step by step *)

\* Entry of update_status up to the test "cls._pool is None" of get_pool.
\* Threads are numbered in the order of their first call.
Start(t, a) ==
    /\ pc[t] = "idle"
    /\ t \in active
    /\ \A u \in Threads : u < t => result[u] # "none"
    /\ budget > 0
    /\ budget' = budget - 1
    /\ args' = [args EXCEPT ![t] = a]
    /\ pc' = [pc EXCEPT ![t] = IF cls_pool = 0 THEN "create" ELSE "getconn"]
    /\ logged' = [logged EXCEPT ![t] = "none"]
    /\ wrote' = [wrote EXCEPT ![t] = FALSE]
    /\ result' = [result EXCEPT ![t] = "running"]
    /\ UNCHANGED <<cls_pool, made, used, table, clock, active, faults, pool,
                   conn, txstart, exc, overtaken, merged, latest, writes,
                   haderror>>

\* get_pool found _pool unset: construct the pool and assign it.
CreatePool(t) ==
    /\ pc[t] = "create"
    /\ \E o \in {"ok"} \cup May("connect") :
          /\ made' = IF o = "ok" THEN made \cup {t} ELSE made
          /\ cls_pool' = IF o = "ok" THEN t ELSE cls_pool
          /\ exc' = [exc EXCEPT ![t] = IF o = "ok" THEN "none" ELSE o]
          /\ pc' = [pc EXCEPT ![t] = IF o = "ok" THEN "getconn" ELSE "exit"]
          /\ args' = [args EXCEPT ![t] = IF o = "ok" THEN @ ELSE NoArgs]
    /\ UNCHANGED <<used, table, clock, active, faults, budget, pool, conn,
                   txstart, logged, wrote, overtaken, result, merged, latest,
                   writes, haderror>>

\* "return cls._pool", pool.getconn() and conn.cursor().
GetConn(t) ==
    /\ pc[t] = "getconn"
    /\ LET p == cls_pool
       IN  \E o \in IF PoolExhausted(used, p) THEN {"exhausted"}
                   ELSE {"ok"} \cup May("getconn") \cup May("cursor") :
              /\ pool' = [pool EXCEPT ![t] = p]
              /\ conn' = [conn EXCEPT ![t] = o \in {"ok", "cursor"}]
              /\ used' = IF o \in {"ok", "cursor"}
                         THEN [used EXCEPT ![p] = @ + 1] ELSE used
              /\ exc' = [exc EXCEPT ![t] = IF o = "ok" THEN "none" ELSE o]
              /\ pc' = [pc EXCEPT ![t] = IF o = "ok" THEN "begin" ELSE "exit"]
              /\ args' = [args EXCEPT ![t] = IF o = "ok" THEN @ ELSE NoArgs]
    /\ UNCHANGED <<cls_pool, made, table, clock, active, faults, budget,
                   txstart, logged, wrote, overtaken, result, merged, latest,
                   writes, haderror>>

\* cursor.execute, first part: the parameter tuple is built (json.dumps) and
\* the connection sends BEGIN; NOW() is that moment.  The server's clock
\* gives every transaction a later start time than the one begun before it.
Begin(t) ==
    /\ pc[t] = "begin"
    /\ LET m == args[t].metadata
           ok == ~Truthy(m) \/ Serializable(m.val)
       IN  /\ clock' = IF ok THEN clock + 1 ELSE clock
           /\ txstart' = [txstart EXCEPT ![t] = IF ok THEN clock + 1 ELSE @]
           /\ exc' = [exc EXCEPT ![t] = IF ok THEN "none" ELSE "serialize"]
           /\ pc' = [pc EXCEPT ![t] = IF ok THEN "write" ELSE "exit"]
           /\ args' = [args EXCEPT ![t] = IF ok THEN @ ELSE NoArgs]
    /\ overtaken' = [overtaken EXCEPT ![t] = FALSE]
    /\ UNCHANGED <<cls_pool, made, used, table, active, faults, budget, pool,
                   conn, logged, wrote, result, merged, latest, writes,
                   haderror>>

\* What the claims compare the table with: the metadata arguments of the
\* committed calls of a job, merged in commit order.
MergeArg(acc, m) ==
    IF m.isnone THEN acc
    ELSE IF acc.isnone THEN m
    ELSE Some([k \in DOMAIN acc.val \cup DOMAIN m.val |->
                  IF k \in DOMAIN m.val THEN m.val[k] ELSE acc.val[k]])

\* cursor.execute, second part, conn.commit(), cursor.close() and the
\* success line of the log.  The statement holds the lock of its row from its
\* execution to the end of its transaction, so no other transaction acts on
\* the row in between.
Write(t) ==
    /\ pc[t] = "write"
    /\ \E o \in {"ok"} \cup May("execute") \cup May("commit")
                 \cup May("close") :
          LET done == o \in {"ok", "close"}
              j == args[t].job_id
          IN  /\ table' = IF done THEN Upsert(table, args[t], txstart[t])
                          ELSE table
              /\ wrote' = [wrote EXCEPT ![t] = done]
              /\ merged' = IF done
                           THEN [merged EXCEPT
                                    ![j] = MergeArg(@, args[t].metadata)]
                           ELSE merged
              /\ latest' = IF done
                           THEN [latest EXCEPT ![j] = Some(args[t])]
                           ELSE latest
              /\ writes' = IF done THEN [writes EXCEPT ![j] = @ + 1]
                           ELSE writes
              /\ haderror' = IF done /\ ~args[t].error_message.isnone
                             THEN [haderror EXCEPT ![j] = TRUE]
                             ELSE haderror
              /\ overtaken' = [u \in Threads |->
                                  IF u = t THEN FALSE
                                  ELSE IF done /\ pc[u] = "write"
                                          /\ args[u].job_id = j
                                       THEN TRUE ELSE overtaken[u]]
              /\ exc' = [exc EXCEPT ![t] = IF o = "ok" THEN "none" ELSE o]
    /\ pc' = [pc EXCEPT ![t] = "exit"]
    /\ args' = [args EXCEPT ![t] = NoArgs]
    /\ txstart' = [txstart EXCEPT ![t] = 0]
    /\ UNCHANGED <<cls_pool, made, used, clock, active, faults, budget, pool,
                   conn, logged, result>>

\* The way out of update_status.  except Exception (when a step raised): the
\* error line of the log, then conn.rollback() when a connection was
\* obtained; an exception raised by rollback leaves the handler.  finally:
\* pool.putconn(conn) when a connection was obtained.  Then the call returns,
\* or the exception that left the handler reaches the caller.
Exit(t) ==
    /\ pc[t] = "exit"
    /\ logged' = [logged EXCEPT ![t] = exc[t]]
    /\ \E o \in {"ok"} \cup (IF exc[t] # "none" /\ conn[t]
                             THEN May("rollback") ELSE {}) :
          /\ result' = [result EXCEPT ![t] =
                           IF o # "ok" THEN "raised"
                           ELSE IF exc[t] # "none" THEN "swallowed" ELSE "ok"]
          /\ used' = PutBack(used, pool[t], conn[t], o # "ok")
    /\ pc' = [pc EXCEPT ![t] = "idle"]
    /\ pool' = [pool EXCEPT ![t] = 0]
    /\ conn' = [conn EXCEPT ![t] = FALSE]
    /\ exc' = [exc EXCEPT ![t] = "none"]
    /\ UNCHANGED <<cls_pool, made, table, clock, active, faults, budget, args,
                   txstart, wrote, overtaken, merged, latest, writes,
                   haderror>>

----------------------------------------------------------------------------
(* Specifications *)

InitWith(act, flt, n) ==
    /\ cls_pool = 0
    /\ made = {}
    /\ used = [p \in PoolIds |-> 0]
    /\ table = {}
    /\ clock = 0
    /\ active = act
    /\ faults = flt
    /\ budget = n
    /\ pc = [t \in Threads |-> "idle"]
    /\ args = [t \in Threads |-> NoArgs]
    /\ pool = [t \in Threads |-> 0]
    /\ conn = [t \in Threads |-> FALSE]
    /\ txstart = [t \in Threads |-> 0]
    /\ exc = [t \in Threads |-> "none"]
    /\ logged = [t \in Threads |-> "none"]
    /\ wrote = [t \in Threads |-> FALSE]
    /\ overtaken = [t \in Threads |-> FALSE]
    /\ result = [t \in Threads |-> "none"]
    /\ merged = [j \in Jobs |-> None]
    /\ latest = [j \in Jobs |-> None]
    /\ writes = [j \in Jobs |-> 0]
    /\ haderror = [j \in Jobs |-> FALSE]

\* One caller, every input, every fault.
Init == InitWith({1}, AllFaults, MaxCalls)

Call(t) == \E a \in Inputs : Start(t, a)

Next ==
    \E t \in Threads :
        \/ Call(t)
        \/ CreatePool(t)
        \/ GetConn(t)
        \/ Begin(t)
        \/ Write(t)
        \/ Exit(t)

Spec == Init /\ [][Next]_vars

\* Two callers at once, two jobs, every fault.
InitConc == InitWith({1, 2}, AllFaults, MaxConcCalls)

CallConc(t) == \E a \in ConcInputs : Start(t, a)

NextConc ==
    \E t \in Threads :
        \/ CallConc(t)
        \/ CreatePool(t)
        \/ GetConn(t)
        \/ Begin(t)
        \/ Write(t)
        \/ Exit(t)

SpecConc == InitConc /\ [][NextConc]_vars

\* More callers at once than a pool has connections, no fault but the
\* exhausted pool.
InitPool == InitWith(Threads, {}, maxconn + 1)

\* A caller arrives when no other caller is between its entry and its getconn.
CallPool(t) ==
    /\ \A u \in Threads : pc[u] \notin {"create", "getconn"}
    /\ \E a \in PoolInputs : Start(t, a)

NextPool ==
    \E t \in Threads :
        \/ CallPool(t)
        \/ CreatePool(t)
        \/ GetConn(t)
        \/ Begin(t)
        \/ Write(t)
        \/ Exit(t)

SpecPool == InitPool /\ [][NextPool]_vars

----------------------------------------------------------------------------
(* Properties *)

RowsOf(tbl, j) == {r \in tbl : r.job_id = j}

AllIdle == \A t \in Threads : pc[t] = "idle"

\* C1: update_status never raises to its caller, whichever step failed,
\* the rollback of the handler included.
NeverRaises == \A t \in Threads : result[t] # "raised"

\* C2: the stored metadata of a job is the left-to-right merge of the
\* metadata arguments of the calls committed for it; a call without metadata
\* leaves it as it is and an absent stored value takes the argument as given.
MetadataIsMergeOfArguments ==
    \A r \in table : r.metadata = merged[r.job_id]

\* C3: every connection handed out is put back before the call exits: a
\* pool's checked-out connections are those of the calls still in progress,
\* so none is checked out once every call has ended.
ConnectionsReturned ==
    /\ \A p \in PoolIds :
          used[p] = Cardinality({t \in Threads : conn[t] /\ pool[t] = p})
    /\ AllIdle => \A p \in PoolIds : used[p] = 0

\* C3 witness: a call whose rollback raised has ended and no connection is
\* checked out.
ReturnedAfterFailedRollback ==
    /\ AllIdle
    /\ \E t \in Threads :
          result[t] = "raised" /\ logged[t] \in {"commit", "close"}
    /\ \A p \in PoolIds : used[p] = 0

\* C4: the pool constructor succeeds at most once and every caller uses the
\* same pool object.
SinglePool ==
    /\ Cardinality(made) <= 1
    /\ \A t, u \in Threads : pool[t] # 0 /\ pool[u] # 0 => pool[t] = pool[u]

\* C5 as stated: no call is failed or dropped because the pool has maxconn
\* connections in use; the caller waits and then writes.
NoCallDroppedByBound ==
    \A t \in Threads : logged[t] = "exhausted" => wrote[t]

\* C5 as amended: a pool never has more than maxconn connections checked
\* out, and a caller that finds them all checked out does not wait: getconn
\* raises, the call holds no connection, writes nothing, logs the error and
\* returns normally.
PoolBoundDropsCaller ==
    /\ \A p \in PoolIds : used[p] <= maxconn
    /\ \A t \in Threads :
          /\ exc[t] = "exhausted" => ~conn[t] /\ ~wrote[t]
          /\ logged[t] = "exhausted" => ~wrote[t] /\ result[t] = "swallowed"

\* C5 witness: a caller found its pool exhausted and has returned, while the
\* maxconn holders are still inside their calls.
CallerDroppedAtBound ==
    \E t \in Threads :
        /\ logged[t] = "exhausted"
        /\ result[t] = "swallowed"
        /\ pc[t] = "idle"
        /\ \E p \in PoolIds : used[p] = maxconn

\* C6 as stated: a committed write stores an updated_at strictly greater
\* than the one it replaces.
UpdatedAtIncreases ==
    [][\A t \in Threads :
          pc[t] = "write" /\ wrote'[t] =>
              \A r \in RowsOf(table, args[t].job_id) :
                  \A n \in RowsOf(table', r.job_id) :
                      n.updated_at > r.updated_at]_vars

\* C6 as amended: updated_at is the start time of the writing transaction; a
\* committed write stores a strictly greater updated_at than the one it
\* replaces when no other write to the job was committed between the start
\* of its transaction and its commit.
UpdatedAtIncreasesUnlessOvertaken ==
    [][\A t \in Threads :
          pc[t] = "write" /\ wrote'[t] =>
              \A n \in RowsOf(table', args[t].job_id) :
                  /\ n.updated_at = txstart[t]
                  /\ ~overtaken[t] =>
                        \A r \in RowsOf(table, n.job_id) :
                            n.updated_at > r.updated_at]_vars

\* C6 witness: a job was written twice and its row carries the start time of
\* a transaction that began after another one.
SecondWriteStoredLater ==
    \E j \in Jobs :
        /\ writes[j] >= 2
        /\ \E r \in RowsOf(table, j) : r.updated_at >= 2

\* C7: a job that was written has exactly one record, with the status, stage
\* and error_message of the call committed last; a job never written has
\* none.
OneRecordLatestFields ==
    \A j \in Jobs :
        IF latest[j].isnone THEN RowsOf(table, j) = {}
        ELSE /\ Cardinality(RowsOf(table, j)) = 1
             /\ \A r \in RowsOf(table, j) :
                   /\ r.status = latest[j].val.phase[1]
                   /\ r.stage = latest[j].val.phase[2]
                   /\ r.error_message = latest[j].val.error_message

\* C7 witness: a job whose record once held an error_message holds none
\* after a later call without one.
ErrorMessageCleared ==
    \E j \in Jobs :
        /\ haderror[j]
        /\ writes[j] >= 2
        /\ \E r \in RowsOf(table, j) : r.error_message = None

\* C8: a call that logged an error has left the table as it was.
FailurePathLeavesTable ==
    \A t \in Threads : logged[t] # "none" => ~wrote[t]

\* C9: the first committed call of a job creates one record holding its
\* arguments, the metadata mapping as passed (an empty mapping included) and
\* no metadata only when none was passed.
FirstCallStoresArguments ==
    \A j \in Jobs :
        writes[j] = 1 =>
            /\ Cardinality(RowsOf(table, j)) = 1
            /\ \A r \in RowsOf(table, j) :
                  /\ r.series_id = latest[j].val.series_id
                  /\ r.status = latest[j].val.phase[1]
                  /\ r.stage = latest[j].val.phase[2]
                  /\ r.error_message = latest[j].val.error_message
                  /\ r.metadata = latest[j].val.metadata

\* C10: the series_id of a record never changes once the record exists.
SeriesIdFixed ==
    [][\A r \in table :
          \E n \in table' :
              n.job_id = r.job_id /\ n.series_id = r.series_id]_vars

\* C10 witness: the call committed last passed a series_id other than the
\* one the record holds.
LaterCallPassedOtherSeries ==
    \E r \in table :
        /\ ~latest[r.job_id].isnone
        /\ latest[r.job_id].val.series_id # r.series_id

====
